---- MODULE Spec2Model ----
(***************************************************************************)
(* Model of the conlang pattern compiler and word generator:               *)
(*   src/src/phone.rs  phoneme catalog, single-symbol parsers, Inventory   *)
(*   src/src/gen.rs    WordGenerator / SyllableGenerator / PhonemeGenerator*)
(* Characters are Unicode scalar values (integers); strings are sequences  *)
(* of characters.  A call that hits todo!() or an arithmetic/index fault   *)
(* ends in the outcome Panic.                                              *)
(***************************************************************************)
EXTENDS Integers, Sequences, FiniteSets, TLC

VARIABLES
  inventory,   \* phone::Inventory handed to WordGenerator::parse
  src,         \* pattern text of the last WordGenerator::parse call
  result,      \* outcome of that call: NotCalled, Ok(generator), Err(e) or Panic
  word,        \* outcome of the last generate call on the generator in result
  calls,       \* generate calls made on that generator
  family,      \* catalog parser used by the last single-symbol parse
  input,       \* its input string
  parsed,      \* its outcome
  samplers,    \* samplers sharing the generator in result, each with its own rng
  cmd,         \* main.rs: the phoneme lists given on the command line
  built        \* which constructor built inventory

vars ==
  <<inventory, src, result, word, calls, family, input, parsed, samplers, cmd, built>>

\* ------------------------------------------------------------------ bounds
MaxLen == 4          \* longest pattern text over 'C', 'V' and the space
MaxShort == 3        \* longest pattern text over the whole pattern alphabet
MaxInventory == 2    \* longest restricted consonant / vowel list
MaxCalls == 2        \* generate calls counted per generator
BigRand == 1000003   \* a random value larger than every candidate list
MaxStrLen == 2       \* longest multi-character input of a single-symbol parser
MaxSamplerLen == 3   \* longest pattern text of a generator shared by samplers
MaxWraps == 2        \* random values of a single slot run up to MaxWraps list lengths
MaxListLen == 3      \* longest phoneme list text given to parse_all
MaxEqLen == 2        \* longest pattern text of two generators that are compared

\* ------------------------------------------------------- result values
Ok(v) == [tag |-> "Ok", val |-> v]
Err(e) == [tag |-> "Err", err |-> e]
Panic == [tag |-> "Panic"]
NotCalled == [tag |-> "NotCalled"]

NoInput == [kind |-> "NoInput"]
TooManyCharacters == [kind |-> "TooManyCharacters"]
UnknownCharacter(c) == [kind |-> "UnknownCharacter", c |-> c]

\* ----------------------------------------------------- phone.rs: catalog
\* phone.rs ALL_CONSONANTS, in declaration order
ALL_CONSONANTS ==
  <<"P", "B", "T", "D", "TRetroflex", "DRetroflex", "C", "JPalatal", "K", "G", "Q", "GCap",
    "GlottalStop", "M", "MHook", "N", "NRetroflex", "NPalatal", "NVelar", "NUvular", "BCap",
    "Rrr", "RCap", "VTap", "RTap", "RFlap", "Phi", "Beta", "F", "V", "Theta", "Del", "S", "Z",
    "Esh", "Ezh", "Sh", "Zh", "Ch", "JCurl", "X", "Gamma", "Xh", "Yr", "HBar", "Crook", "H",
    "HCurl", "LBelt", "Lezh", "VHook", "RTilt", "RTiltHook", "J", "MTiltTail", "L", "Ll",
    "Lambda", "LCap">>

\* Consonant::code, as Unicode scalar values
ConsonantCode(k) ==
  CASE k = "P" -> 112
    [] k = "B" -> 98
    [] k = "T" -> 116
    [] k = "D" -> 100
    [] k = "TRetroflex" -> 648
    [] k = "DRetroflex" -> 598
    [] k = "C" -> 99
    [] k = "JPalatal" -> 607
    [] k = "K" -> 107
    [] k = "G" -> 103
    [] k = "Q" -> 113
    [] k = "GCap" -> 610
    [] k = "GlottalStop" -> 660
    [] k = "M" -> 109
    [] k = "MHook" -> 625
    [] k = "N" -> 110
    [] k = "NRetroflex" -> 627
    [] k = "NPalatal" -> 626
    [] k = "NVelar" -> 331
    [] k = "NUvular" -> 628
    [] k = "BCap" -> 665
    [] k = "Rrr" -> 114
    [] k = "RCap" -> 640
    [] k = "VTap" -> 11377
    [] k = "RTap" -> 638
    [] k = "RFlap" -> 637
    [] k = "Phi" -> 632
    [] k = "Beta" -> 946
    [] k = "F" -> 102
    [] k = "V" -> 118
    [] k = "Theta" -> 952
    [] k = "Del" -> 240
    [] k = "S" -> 115
    [] k = "Z" -> 122
    [] k = "Esh" -> 643
    [] k = "Ezh" -> 658
    [] k = "Sh" -> 642
    [] k = "Zh" -> 656
    [] k = "Ch" -> 231
    [] k = "JCurl" -> 669
    [] k = "X" -> 120
    [] k = "Gamma" -> 611
    [] k = "Xh" -> 967
    [] k = "Yr" -> 641
    [] k = "HBar" -> 295
    [] k = "Crook" -> 661
    [] k = "H" -> 104
    [] k = "HCurl" -> 614
    [] k = "LBelt" -> 620
    [] k = "Lezh" -> 622
    [] k = "VHook" -> 651
    [] k = "RTilt" -> 633
    [] k = "RTiltHook" -> 635
    [] k = "J" -> 106
    [] k = "MTiltTail" -> 624
    [] k = "L" -> 108
    [] k = "Ll" -> 621
    [] k = "Lambda" -> 654
    [] k = "LCap" -> 671

\* Consonant::manner
ConsonantManner(k) ==
  CASE k = "P" -> "Plosive"
    [] k = "B" -> "Plosive"
    [] k = "T" -> "Plosive"
    [] k = "D" -> "Plosive"
    [] k = "TRetroflex" -> "Plosive"
    [] k = "DRetroflex" -> "Plosive"
    [] k = "C" -> "Plosive"
    [] k = "JPalatal" -> "Plosive"
    [] k = "K" -> "Plosive"
    [] k = "G" -> "Plosive"
    [] k = "Q" -> "Plosive"
    [] k = "GCap" -> "Plosive"
    [] k = "GlottalStop" -> "Plosive"
    [] k = "M" -> "Nasal"
    [] k = "MHook" -> "Nasal"
    [] k = "N" -> "Nasal"
    [] k = "NRetroflex" -> "Nasal"
    [] k = "NPalatal" -> "Nasal"
    [] k = "NVelar" -> "Nasal"
    [] k = "NUvular" -> "Nasal"
    [] k = "BCap" -> "Trill"
    [] k = "Rrr" -> "Trill"
    [] k = "RCap" -> "Trill"
    [] k = "VTap" -> "Tap"
    [] k = "RTap" -> "Tap"
    [] k = "RFlap" -> "Tap"
    [] k = "Phi" -> "Fricative"
    [] k = "Beta" -> "Fricative"
    [] k = "F" -> "Fricative"
    [] k = "V" -> "Fricative"
    [] k = "Theta" -> "Fricative"
    [] k = "Del" -> "Fricative"
    [] k = "S" -> "Fricative"
    [] k = "Z" -> "Fricative"
    [] k = "Esh" -> "Fricative"
    [] k = "Ezh" -> "Fricative"
    [] k = "Sh" -> "Fricative"
    [] k = "Zh" -> "Fricative"
    [] k = "Ch" -> "Fricative"
    [] k = "JCurl" -> "Fricative"
    [] k = "X" -> "Fricative"
    [] k = "Gamma" -> "Fricative"
    [] k = "Xh" -> "Fricative"
    [] k = "Yr" -> "Fricative"
    [] k = "HBar" -> "Fricative"
    [] k = "Crook" -> "Fricative"
    [] k = "H" -> "Fricative"
    [] k = "HCurl" -> "Fricative"
    [] k = "LBelt" -> "LateralFricative"
    [] k = "Lezh" -> "LateralFricative"
    [] k = "VHook" -> "Approximant"
    [] k = "RTilt" -> "Approximant"
    [] k = "RTiltHook" -> "Approximant"
    [] k = "J" -> "Approximant"
    [] k = "MTiltTail" -> "Approximant"
    [] k = "L" -> "LateralApproximant"
    [] k = "Ll" -> "LateralApproximant"
    [] k = "Lambda" -> "LateralApproximant"
    [] k = "LCap" -> "LateralApproximant"

\* Consonant::place
ConsonantPlace(k) ==
  CASE k = "P" -> "Bilabial"
    [] k = "B" -> "Bilabial"
    [] k = "T" -> "Alveolar"
    [] k = "D" -> "Alveolar"
    [] k = "TRetroflex" -> "Retroflex"
    [] k = "DRetroflex" -> "Retroflex"
    [] k = "C" -> "Palatal"
    [] k = "JPalatal" -> "Palatal"
    [] k = "K" -> "Velar"
    [] k = "G" -> "Velar"
    [] k = "Q" -> "Uvular"
    [] k = "GCap" -> "Uvular"
    [] k = "GlottalStop" -> "Glottal"
    [] k = "M" -> "Bilabial"
    [] k = "MHook" -> "Labiodental"
    [] k = "N" -> "Alveolar"
    [] k = "NRetroflex" -> "Retroflex"
    [] k = "NPalatal" -> "Palatal"
    [] k = "NVelar" -> "Velar"
    [] k = "NUvular" -> "Uvular"
    [] k = "BCap" -> "Bilabial"
    [] k = "Rrr" -> "Alveolar"
    [] k = "RCap" -> "Uvular"
    [] k = "VTap" -> "Labiodental"
    [] k = "RTap" -> "Alveolar"
    [] k = "RFlap" -> "Retroflex"
    [] k = "Phi" -> "Bilabial"
    [] k = "Beta" -> "Bilabial"
    [] k = "F" -> "Labiodental"
    [] k = "V" -> "Labiodental"
    [] k = "Theta" -> "Dental"
    [] k = "Del" -> "Dental"
    [] k = "S" -> "Alveolar"
    [] k = "Z" -> "Alveolar"
    [] k = "Esh" -> "PostAlveolar"
    [] k = "Ezh" -> "PostAlveolar"
    [] k = "Sh" -> "Retroflex"
    [] k = "Zh" -> "Retroflex"
    [] k = "Ch" -> "Palatal"
    [] k = "JCurl" -> "Palatal"
    [] k = "X" -> "Velar"
    [] k = "Gamma" -> "Velar"
    [] k = "Xh" -> "Uvular"
    [] k = "Yr" -> "Uvular"
    [] k = "HBar" -> "Pharyngeal"
    [] k = "Crook" -> "Pharyngeal"
    [] k = "H" -> "Glottal"
    [] k = "HCurl" -> "Glottal"
    [] k = "LBelt" -> "Alveolar"
    [] k = "Lezh" -> "Alveolar"
    [] k = "VHook" -> "Labiodental"
    [] k = "RTilt" -> "Alveolar"
    [] k = "RTiltHook" -> "Retroflex"
    [] k = "J" -> "Palatal"
    [] k = "MTiltTail" -> "Velar"
    [] k = "L" -> "Alveolar"
    [] k = "Ll" -> "Retroflex"
    [] k = "Lambda" -> "Palatal"
    [] k = "LCap" -> "Velar"

\* impl TryFrom<char> for Consonant
ConsonantTryFrom(value) ==
  CASE value = 112 -> Ok("P")
    [] value = 98 -> Ok("B")
    [] value = 116 -> Ok("T")
    [] value = 100 -> Ok("D")
    [] value = 648 -> Ok("TRetroflex")
    [] value = 598 -> Ok("DRetroflex")
    [] value = 99 -> Ok("C")
    [] value = 607 -> Ok("JPalatal")
    [] value = 107 -> Ok("K")
    [] value = 103 -> Ok("G")
    [] value = 113 -> Ok("Q")
    [] value = 610 -> Ok("GCap")
    [] value = 660 -> Ok("GlottalStop")
    [] value = 109 -> Ok("M")
    [] value = 625 -> Ok("MHook")
    [] value = 110 -> Ok("N")
    [] value = 627 -> Ok("NRetroflex")
    [] value = 626 -> Ok("NPalatal")
    [] value = 331 -> Ok("NVelar")
    [] value = 628 -> Ok("NUvular")
    [] value = 665 -> Ok("BCap")
    [] value = 114 -> Ok("Rrr")
    [] value = 640 -> Ok("RCap")
    [] value = 11377 -> Ok("VTap")
    [] value = 638 -> Ok("RTap")
    [] value = 637 -> Ok("RFlap")
    [] value = 632 -> Ok("Phi")
    [] value = 946 -> Ok("Beta")
    [] value = 102 -> Ok("F")
    [] value = 118 -> Ok("V")
    [] value = 952 -> Ok("Theta")
    [] value = 240 -> Ok("Del")
    [] value = 115 -> Ok("S")
    [] value = 122 -> Ok("Z")
    [] value = 643 -> Ok("Esh")
    [] value = 658 -> Ok("Ezh")
    [] value = 642 -> Ok("Sh")
    [] value = 656 -> Ok("Zh")
    [] value = 231 -> Ok("Ch")
    [] value = 669 -> Ok("JCurl")
    [] value = 120 -> Ok("X")
    [] value = 611 -> Ok("Gamma")
    [] value = 967 -> Ok("Xh")
    [] value = 641 -> Ok("Yr")
    [] value = 295 -> Ok("HBar")
    [] value = 661 -> Ok("Crook")
    [] value = 104 -> Ok("H")
    [] value = 614 -> Ok("HCurl")
    [] value = 620 -> Ok("LBelt")
    [] value = 622 -> Ok("Lezh")
    [] value = 651 -> Ok("VHook")
    [] value = 633 -> Ok("RTilt")
    [] value = 635 -> Ok("RTiltHook")
    [] value = 106 -> Ok("J")
    [] value = 624 -> Ok("MTiltTail")
    [] value = 108 -> Ok("L")
    [] value = 621 -> Ok("Ll")
    [] value = 654 -> Ok("Lambda")
    [] value = 671 -> Ok("LCap")
    [] OTHER -> Err(UnknownCharacter(value))

\* phone.rs ALL_NON_PULMONIC_CONSTANTS
ALL_NON_PULMONIC_CONSTANTS ==
  <<"BilabialClick", "DentalClick", "Postalveoalar", "Palatoalveolar", "AlveolarLateral",
    "BilabialImplosive", "DentalImplosive", "Palatal", "Velar", "Uvular">>

\* NonPulmonicConsonant::code with the velar implosive written as the plosive
\* 'g' of the consonants (mutation of NonPulmonicConsonantCode)
NonPulmonicConsonantCode_VelarAsG(k) ==
  CASE k = "BilabialClick" -> 664
    [] k = "DentalClick" -> 448
    [] k = "Postalveoalar" -> 451
    [] k = "Palatoalveolar" -> 450
    [] k = "AlveolarLateral" -> 449
    [] k = "BilabialImplosive" -> 595
    [] k = "DentalImplosive" -> 599
    [] k = "Palatal" -> 644
    [] k = "Velar" -> 103
    [] k = "Uvular" -> 667

\* NonPulmonicConsonant::code
NonPulmonicConsonantCode(k) ==
  CASE k = "BilabialClick" -> 664
    [] k = "DentalClick" -> 448
    [] k = "Postalveoalar" -> 451
    [] k = "Palatoalveolar" -> 450
    [] k = "AlveolarLateral" -> 449
    [] k = "BilabialImplosive" -> 595
    [] k = "DentalImplosive" -> 599
    [] k = "Palatal" -> 644
    [] k = "Velar" -> 608
    [] k = "Uvular" -> 667

\* impl TryFrom<char> for NonPulmonicConsonant
NonPulmonicConsonantTryFrom(value) ==
  CASE value = 664 -> Ok("BilabialClick")
    [] value = 448 -> Ok("DentalClick")
    [] value = 451 -> Ok("Postalveoalar")
    [] value = 450 -> Ok("Palatoalveolar")
    [] value = 449 -> Ok("AlveolarLateral")
    [] value = 595 -> Ok("BilabialImplosive")
    [] value = 599 -> Ok("DentalImplosive")
    [] value = 644 -> Ok("Palatal")
    [] value = 608 -> Ok("Velar")
    [] value = 667 -> Ok("Uvular")
    [] OTHER -> Err(UnknownCharacter(value))

\* phone.rs ALL_VOWELS
ALL_VOWELS ==
  <<"I", "Y", "IBar", "UBar", "Uu", "U", "Ii", "YCap", "OmegaFlip", "E", "OCross", "EReverse",
    "OBar", "RamsHorns", "O", "Schwa", "EOpen", "Oe", "Ze", "EpsilonClosedReversed", "VFlip",
    "OOpen", "Ae", "AFlip", "A", "OeSmall", "AScript", "AScriptFlip">>

\* Vowel::code
VowelCode(k) ==
  CASE k = "I" -> 105
    [] k = "Y" -> 121
    [] k = "IBar" -> 616
    [] k = "UBar" -> 649
    [] k = "Uu" -> 623
    [] k = "U" -> 117
    [] k = "Ii" -> 618
    [] k = "YCap" -> 655
    [] k = "OmegaFlip" -> 650
    [] k = "E" -> 101
    [] k = "OCross" -> 248
    [] k = "EReverse" -> 600
    [] k = "OBar" -> 629
    [] k = "RamsHorns" -> 612
    [] k = "O" -> 111
    [] k = "Schwa" -> 601
    [] k = "EOpen" -> 603
    [] k = "Oe" -> 339
    [] k = "Ze" -> 604
    [] k = "EpsilonClosedReversed" -> 606
    [] k = "VFlip" -> 652
    [] k = "OOpen" -> 596
    [] k = "Ae" -> 230
    [] k = "AFlip" -> 592
    [] k = "A" -> 97
    [] k = "OeSmall" -> 630
    [] k = "AScript" -> 593
    [] k = "AScriptFlip" -> 594

\* impl TryFrom<char> for Vowel
VowelTryFrom(value) ==
  CASE value = 105 -> Ok("I")
    [] value = 121 -> Ok("Y")
    [] value = 616 -> Ok("IBar")
    [] value = 649 -> Ok("UBar")
    [] value = 623 -> Ok("Uu")
    [] value = 117 -> Ok("U")
    [] value = 618 -> Ok("Ii")
    [] value = 655 -> Ok("YCap")
    [] value = 650 -> Ok("OmegaFlip")
    [] value = 101 -> Ok("E")
    [] value = 248 -> Ok("OCross")
    [] value = 600 -> Ok("EReverse")
    [] value = 629 -> Ok("OBar")
    [] value = 612 -> Ok("RamsHorns")
    [] value = 111 -> Ok("O")
    [] value = 601 -> Ok("Schwa")
    [] value = 603 -> Ok("EOpen")
    [] value = 339 -> Ok("Oe")
    [] value = 604 -> Ok("Ze")
    [] value = 606 -> Ok("EpsilonClosedReversed")
    [] value = 652 -> Ok("VFlip")
    [] value = 596 -> Ok("OOpen")
    [] value = 230 -> Ok("Ae")
    [] value = 592 -> Ok("AFlip")
    [] value = 97 -> Ok("A")
    [] value = 630 -> Ok("OeSmall")
    [] value = 593 -> Ok("AScript")
    [] value = 594 -> Ok("AScriptFlip")
    [] OTHER -> Err(UnknownCharacter(value))

\* impl FromStr for Consonant, with the one-character arm moved to the
\* two-character case (mutation of ConsonantFromStr)
ConsonantFromStr_OffByOne(value) ==
  CASE Len(value) = 0 -> Err(NoInput)
    [] Len(value) = 2 -> ConsonantTryFrom(value[1])
    [] OTHER -> Err(TooManyCharacters)

ConsonantFromStr(value) ==
  CASE Len(value) = 0 -> Err(NoInput)
    [] Len(value) = 1 -> ConsonantTryFrom(value[1])
    [] OTHER -> Err(TooManyCharacters)

VowelFromStr(value) ==
  CASE Len(value) = 0 -> Err(NoInput)
    [] Len(value) = 1 -> VowelTryFrom(value[1])
    [] OTHER -> Err(TooManyCharacters)

NonPulmonicConsonantFromStr(value) ==
  CASE Len(value) = 0 -> Err(NoInput)
    [] Len(value) = 1 -> NonPulmonicConsonantTryFrom(value[1])
    [] OTHER -> Err(TooManyCharacters)

\* enum Consonant, enum Vowel, enum NonPulmonicConsonant
Consonant == {ALL_CONSONANTS[i] : i \in 1..Len(ALL_CONSONANTS)}
Vowel == {ALL_VOWELS[i] : i \in 1..Len(ALL_VOWELS)}
NonPulmonicConsonant ==
  {ALL_NON_PULMONIC_CONSTANTS[i] : i \in 1..Len(ALL_NON_PULMONIC_CONSTANTS)}

Place ==
  {"Bilabial", "Labiodental", "Dental", "Alveolar", "PostAlveolar", "Retroflex",
   "Palatal", "Velar", "Uvular", "Pharyngeal", "Glottal"}

Manner ==
  {"Plosive", "Nasal", "Trill", "Tap", "Fricative", "LateralFricative",
   "Approximant", "LateralApproximant"}

\* impl TryFrom<char> for Place: the body is todo!()
PlaceTryFrom(value) == Panic

\* impl TryFrom<char> for Manner: the body is todo!()
MannerTryFrom(value) == Panic

\* enum Phoneme and its From impls
PhonemeFromConsonant(k) == [family |-> "Consonant", k |-> k]
PhonemeFromVowel(k) == [family |-> "Vowel", k |-> k]
PhonemeFromNonPulmonicConsonant(k) == [family |-> "NonPulmonicConsonant", k |-> k]

\* Phoneme::code
PhonemeCode(ph) ==
  CASE ph.family = "Consonant" -> ConsonantCode(ph.k)
    [] ph.family = "Vowel" -> VowelCode(ph.k)
    [] ph.family = "NonPulmonicConsonant" -> NonPulmonicConsonantCode(ph.k)

\* Result::map(Into::into) on the outcome of a family's try_from
MapInto(r, fam) ==
  IF r.tag = "Ok" THEN Ok([family |-> fam, k |-> r.val]) ELSE r

\* Phoneme::try_from that stops after the vowels (mutation of PhonemeTryFrom)
PhonemeTryFrom_NoNonPulmonic(value) ==
  LET c == MapInto(ConsonantTryFrom(value), "Consonant") IN
  IF c.tag = "Ok" THEN c
  ELSE MapInto(VowelTryFrom(value), "Vowel")

\* impl TryFrom<char> for Phoneme: consonant, or else vowel, or else
\* non-pulmonic consonant; the error that remains is the last one
PhonemeTryFrom(value) ==
  LET c == MapInto(ConsonantTryFrom(value), "Consonant") IN
  IF c.tag = "Ok" THEN c
  ELSE LET v == MapInto(VowelTryFrom(value), "Vowel") IN
       IF v.tag = "Ok" THEN v
       ELSE MapInto(NonPulmonicConsonantTryFrom(value), "NonPulmonicConsonant")

\* Inventory::new that leaves the third list empty (mutation of InventoryNew)
InventoryNew_DropNonPulmonic(cs, vs, ns) ==
  [consonants |-> cs, vowels |-> vs, non_pulmonic_consonants |-> <<>>]

\* Inventory::new and the accessors
InventoryNew(cs, vs, ns) ==
  [consonants |-> cs, vowels |-> vs, non_pulmonic_consonants |-> ns]

InventoryWithEverything ==
  InventoryNew(ALL_CONSONANTS, ALL_VOWELS, ALL_NON_PULMONIC_CONSTANTS)

InventoryConsonants(inv) == inv.consonants
InventoryVowels(inv) == inv.vowels
InventoryNonPulmonicConsonants(inv) == inv.non_pulmonic_consonants

\* Option values of the command line, and Option::unwrap_or
None == [tag |-> "None"]
Some(v) == [tag |-> "Some", val |-> v]
UnwrapOr(o, default) == IF o.tag = "Some" THEN o.val ELSE default

\* main.rs: the inventory built from the command line; a family that is not
\* given falls back to Consonant::all(), to Vowel::all(), and to &[]
MainInventory(c) ==
  InventoryNew(UnwrapOr(c.consonants, ALL_CONSONANTS),
               UnwrapOr(c.vowels, ALL_VOWELS),
               UnwrapOr(c.non_pulmonic, <<>>))

\* Syllable::new
SyllableNew(seq) == [inner |-> seq]

\* ------------------------------------------------------------- gen.rs
\* str length in bytes of one char (UTF-8); src[..1] and src[1..] slice by byte
Utf8Len(c) == IF c < 128 THEN 1 ELSE IF c < 2048 THEN 2 ELSE IF c < 65536 THEN 3 ELSE 4

\* char::is_ascii_whitespace, the separator test of str::split_ascii_whitespace
IsAsciiWhitespace(c) == c \in {32, 9, 10, 12, 13}

\* split_ascii_whitespace with the space as the only separator
\* (mutation of SplitAsciiWhitespace)
RECURSIVE SplitAsciiWhitespace_SpaceOnly(_)
SplitAsciiWhitespace_SpaceOnly(s) ==
  IF s = <<>> THEN <<>>
  ELSE IF Head(s) = 32 THEN SplitAsciiWhitespace_SpaceOnly(Tail(s))
  ELSE LET stops == {i \in 1..Len(s) : s[i] = 32}
           n == IF stops = {} THEN Len(s)
                ELSE (CHOOSE i \in stops : \A j \in stops : i <= j) - 1
       IN  <<SubSeq(s, 1, n)>> \o SplitAsciiWhitespace_SpaceOnly(SubSeq(s, n + 1, Len(s)))

\* str::split_ascii_whitespace: the maximal runs of non-separator characters
RECURSIVE SplitAsciiWhitespace(_)
SplitAsciiWhitespace(s) ==
  IF s = <<>> THEN <<>>
  ELSE IF IsAsciiWhitespace(Head(s)) THEN SplitAsciiWhitespace(Tail(s))
  ELSE LET stops == {i \in 1..Len(s) : IsAsciiWhitespace(s[i])}
           n == IF stops = {} THEN Len(s)
                ELSE (CHOOSE i \in stops : \A j \in stops : i <= j) - 1
       IN  <<SubSeq(s, 1, n)>> \o SplitAsciiWhitespace(SubSeq(s, n + 1, Len(s)))

\* impl From<Consonant | Vowel | NonPulmonicConsonant> for Phoneme, by family
Into(fam, k) ==
  CASE fam = "Consonant" -> PhonemeFromConsonant(k)
    [] fam = "Vowel" -> PhonemeFromVowel(k)
    [] fam = "NonPulmonicConsonant" -> PhonemeFromNonPulmonicConsonant(k)

\* the options without repeated elements (used by a mutation)
RECURSIVE Uniq(_, _)
Uniq(rest, acc) ==
  IF rest = <<>> THEN acc
  ELSE IF \E i \in 1..Len(acc) : acc[i] = Head(rest)
       THEN Uniq(Tail(rest), acc)
       ELSE Uniq(Tail(rest), Append(acc, Head(rest)))

\* from_character_class keeping each option once (mutation of FromCharacterClass)
FromCharacterClass_Dedup(s, options, fam) ==
  IF Utf8Len(Head(s)) > 1 THEN Panic
  ELSE Ok(<<[display |-> SubSeq(s, 1, 1),
             choices |-> [i \in 1..Len(Uniq(options, <<>>)) |->
                            Into(fam, Uniq(options, <<>>)[i])],
             weights |-> <<>>],
            Tail(s)>>)

\* PhonemeGenerator::from_character_class; options holds values of family fam
FromCharacterClass(s, options, fam) ==
  IF Utf8Len(Head(s)) > 1 THEN Panic
  ELSE Ok(<<[display |-> SubSeq(s, 1, 1),
             choices |-> [i \in 1..Len(options) |-> Into(fam, options[i])],
             weights |-> <<>>],
            Tail(s)>>)

\* PhonemeGenerator::from_character_class_filtered; filter is a Boolean-valued
\* function on the values of family fam
FromCharacterClassFiltered(s, options, fam, filter) ==
  IF Utf8Len(Head(s)) > 1 THEN Panic
  ELSE LET kept == SelectSeq(options, LAMBDA x : filter[x]) IN
       Ok(<<[display |-> SubSeq(s, 1, 1),
             choices |-> [i \in 1..Len(kept) |-> Into(fam, kept[i])],
             weights |-> <<>>],
            Tail(s)>>)

\* PhonemeGenerator::parse
PhonemeGeneratorParse(s, inv) ==
  IF s = <<>> THEN Err(NoInput)
  ELSE LET first == Head(s) IN
    CASE first = 67 -> FromCharacterClass(s, InventoryConsonants(inv), "Consonant")
      [] first = 86 -> FromCharacterClass(s, InventoryVowels(inv), "Vowel")
      [] first = 91 -> Panic
      [] first = 40 -> Panic
      [] OTHER ->
           LET place == PlaceTryFrom(first) IN
           CASE place.tag = "Panic" -> Panic
             [] place.tag = "Ok" ->
                  FromCharacterClassFiltered(s, InventoryConsonants(inv), "Consonant",
                    [x \in Consonant |-> ConsonantPlace(x) = place.val])
             [] OTHER ->
                  LET manner == MannerTryFrom(first) IN
                  CASE manner.tag = "Panic" -> Panic
                    [] manner.tag = "Ok" ->
                         FromCharacterClassFiltered(s, InventoryConsonants(inv), "Consonant",
                           [x \in Consonant |-> ConsonantManner(x) = manner.val])
                    [] OTHER -> Panic

\* SyllableGenerator::parse: the while loop over rem, then the emptiness test
RECURSIVE SyllableGeneratorParseLoop(_, _, _)
SyllableGeneratorParseLoop(rem, inv, phonemes) ==
  IF rem = <<>>
  THEN IF phonemes = <<>> THEN Err(NoInput) ELSE Ok([phonemes |-> phonemes])
  ELSE LET r == PhonemeGeneratorParse(rem, inv) IN
       IF r.tag # "Ok" THEN r
       ELSE SyllableGeneratorParseLoop(r.val[2], inv, Append(phonemes, r.val[1]))

\* SyllableGenerator::parse that returns the slots it has, none included
\* (mutation of SyllableGeneratorParse)
SyllableGeneratorParse_NoEmptyCheck(s, inv) ==
  IF s = <<>> THEN Ok([phonemes |-> <<>>])
  ELSE SyllableGeneratorParseLoop(s, inv, <<>>)

SyllableGeneratorParse(s, inv) == SyllableGeneratorParseLoop(s, inv, <<>>)

\* WordGenerator::parse: the for loop over the segments
RECURSIVE WordGeneratorParseLoop(_, _, _)
WordGeneratorParseLoop(segs, inv, syllables) ==
  IF segs = <<>> THEN Ok(syllables)
  ELSE LET r == SyllableGeneratorParse(Head(segs), inv) IN
       IF r.tag # "Ok" THEN r
       ELSE WordGeneratorParseLoop(Tail(segs), inv, Append(syllables, r.val))

\* WordGenerator::parse without the emptiness test (mutation of WordGeneratorParse)
WordGeneratorParse_NoEmptyCheck(s, inv) ==
  LET r == WordGeneratorParseLoop(SplitAsciiWhitespace(s), inv, <<>>) IN
  IF r.tag # "Ok" THEN r ELSE Ok([syllables |-> r.val])

\* WordGenerator::parse
WordGeneratorParse(s, inv) ==
  LET r == WordGeneratorParseLoop(SplitAsciiWhitespace(s), inv, <<>>) IN
  IF r.tag # "Ok" THEN r
  ELSE IF r.val = <<>> THEN Err(NoInput)
  ELSE Ok([syllables |-> r.val])

\* impl Display for PhonemeGenerator
PhonemeGeneratorDisplay(ph) == ph.display

\* impl Display for SyllableGenerator
RECURSIVE SyllableGeneratorDisplayLoop(_)
SyllableGeneratorDisplayLoop(phonemes) ==
  IF phonemes = <<>> THEN <<>>
  ELSE PhonemeGeneratorDisplay(Head(phonemes)) \o SyllableGeneratorDisplayLoop(Tail(phonemes))

SyllableGeneratorDisplay(syl) == SyllableGeneratorDisplayLoop(syl.phonemes)

\* impl Display for WordGenerator
RECURSIVE WordGeneratorDisplayLoop(_, _)
WordGeneratorDisplayLoop(syllables, first) ==
  IF syllables = <<>> THEN <<>>
  ELSE (IF first THEN <<>> ELSE <<32>>)
         \o SyllableGeneratorDisplay(Head(syllables))
         \o WordGeneratorDisplayLoop(Tail(syllables), FALSE)

\* Display that never clears `first`, so no separator is written
\* (mutation of WordGeneratorDisplay)
WordGeneratorDisplay_NoSeparator(g) ==
  LET RECURSIVE Cat(_)
      Cat(syllables) ==
        IF syllables = <<>> THEN <<>>
        ELSE SyllableGeneratorDisplay(Head(syllables)) \o Cat(Tail(syllables))
  IN  Cat(g.syllables)

WordGeneratorDisplay(g) == WordGeneratorDisplayLoop(g.syllables, TRUE)

\* PhonemeGenerator::generate that takes the last candidate for a random value
\* past the end of the list (mutation of PhonemeGeneratorGenerate)
PhonemeGeneratorGenerate_Clamp(ph, rng) ==
  LET r == Head(rng) IN
  IF Len(ph.choices) = 0 THEN Panic
  ELSE Ok(<<ph.choices[IF r >= Len(ph.choices) THEN Len(ph.choices) ELSE r + 1],
            Tail(rng)>>)

\* PhonemeGenerator::generate: one next_u64() from the random stream rng, then
\* choices[r as usize % choices.len()]; the remainder by zero panics.
\* Returns <<phoneme, rest of the stream>>.
PhonemeGeneratorGenerate(ph, rng) ==
  LET r == Head(rng) IN
  IF Len(ph.choices) = 0 THEN Panic
  ELSE Ok(<<ph.choices[(r % Len(ph.choices)) + 1], Tail(rng)>>)

\* SyllableGenerator::generate: the for loop over the slots
RECURSIVE SyllableGeneratorGenerateLoop(_, _, _)
SyllableGeneratorGenerateLoop(phonemes, rng, out) ==
  IF phonemes = <<>> THEN Ok(<<SyllableNew(out), rng>>)
  ELSE LET r == PhonemeGeneratorGenerate(Head(phonemes), rng) IN
       IF r.tag # "Ok" THEN r
       ELSE SyllableGeneratorGenerateLoop(Tail(phonemes), r.val[2], Append(out, r.val[1]))

\* generate that stops before the last slot (mutation of SyllableGeneratorGenerate)
SyllableGeneratorGenerate_SkipLast(syl, rng) ==
  SyllableGeneratorGenerateLoop(SubSeq(syl.phonemes, 1, Len(syl.phonemes) - 1), rng, <<>>)

SyllableGeneratorGenerate(syl, rng) == SyllableGeneratorGenerateLoop(syl.phonemes, rng, <<>>)

\* WordGenerator::generate: the for loop over the syllable generators
RECURSIVE WordGeneratorGenerateLoop(_, _, _)
WordGeneratorGenerateLoop(syllables, rng, out) ==
  IF syllables = <<>> THEN Ok(<<out, rng>>)
  ELSE LET r == SyllableGeneratorGenerate(Head(syllables), rng) IN
       IF r.tag # "Ok" THEN r
       ELSE WordGeneratorGenerateLoop(Tail(syllables), r.val[2], Append(out, r.val[1]))

WordGeneratorGenerate(g, rng) ==
  LET r == WordGeneratorGenerateLoop(g.syllables, rng, <<>>) IN
  IF r.tag # "Ok" THEN r ELSE Ok(r.val[1])

\* ------------------------------------------------------ inputs of the model
RECURSIVE SeqsUpTo(_, _)
SeqsUpTo(S, n) ==
  IF n = 0 THEN {<<>>}
  ELSE LET shorter == SeqsUpTo(S, n - 1) IN
       shorter \cup {Append(t, x) : t \in {u \in shorter : Len(u) = n - 1}, x \in S}

\* Pattern texts: every string of at most MaxShort characters over
\* 'C', 'V', ' ', '\t', '[', '(', '#', U+000B (whitespace that is not ASCII
\* whitespace), and every string of at most MaxLen characters over 'C', 'V', ' '
PatternChars == {67, 86, 32, 9, 91, 40, 35, 11}
Patterns == SeqsUpTo(PatternChars, MaxShort) \cup SeqsUpTo({67, 86, 32}, MaxLen)

\* Inventories: the full catalog, and restricted ones (empty lists and
\* repeated elements included)
ConsonantLists == SeqsUpTo({"P", "T"}, MaxInventory)
VowelLists == SeqsUpTo({"A"}, MaxInventory)
Inventories ==
  {InventoryWithEverything}
    \cup {InventoryNew(cs, vs, <<"BilabialClick">>) : cs \in ConsonantLists, vs \in VowelLists}

\* Random values: zero and one that exceeds every list length
RandVals == {0, BigRand}

\* number of slots of a generator, and the random streams that hold one
\* value per slot of the generator in a parse outcome
RECURSIVE SlotCount(_)
SlotCount(syllables) ==
  IF syllables = <<>> THEN 0
  ELSE Len(Head(syllables).phonemes) + SlotCount(Tail(syllables))
RandStreams(r) ==
  IF r.tag = "Ok" THEN [1..SlotCount(r.val.syllables) -> RandVals] ELSE {}

\* every catalog code, 'C', '#'; and short strings over 'p', 'a', '#'
CatalogChars ==
  {ConsonantCode(k) : k \in Consonant} \cup {VowelCode(k) : k \in Vowel}
    \cup {NonPulmonicConsonantCode(k) : k \in NonPulmonicConsonant} \cup {67, 35}
SymbolInputs == {<<c>> : c \in CatalogChars} \cup SeqsUpTo({112, 97, 35}, MaxStrLen)

\* ------------------------------------------------------------ state machine
Init ==
  /\ inventory \in Inventories
  /\ src = <<>>
  /\ result = NotCalled
  /\ word = NotCalled
  /\ calls = 0
  /\ family = "None"
  /\ input = <<>>
  /\ parsed = NotCalled
  /\ samplers = <<>>
  /\ cmd = NotCalled
  /\ built = "given"

\* main.rs: gen::WordGenerator::parse(&p, &inventory), once per pattern
Parse(p) ==
  /\ result.tag = "NotCalled"
  /\ src' = p
  /\ result' = WordGeneratorParse(p, inventory)
  /\ word' = NotCalled
  /\ calls' = 0
  /\ UNCHANGED <<inventory, family, input, parsed, samplers, cmd, built>>

\* generate that uses up the last syllable generator (mutation of Generate)
Generate_Consuming(rng) ==
  /\ result.tag = "Ok"
  /\ calls < MaxCalls
  /\ word' = WordGeneratorGenerate(result.val, rng)
  /\ calls' = calls + 1
  /\ result' = Ok([syllables |->
                     SubSeq(result.val.syllables, 1, Len(result.val.syllables) - 1)])
  /\ UNCHANGED <<inventory, src, family, input, parsed, samplers, cmd, built>>

\* main.rs: pattern.generate(&mut rng) on a generator that parse returned
Generate(rng) ==
  /\ result.tag = "Ok"
  /\ calls < MaxCalls
  /\ word' = WordGeneratorGenerate(result.val, rng)
  /\ calls' = calls + 1
  /\ UNCHANGED <<inventory, src, result, family, input, parsed, samplers, cmd, built>>

\* the pattern texts still to be parsed: any one until parse has been called
PatternArgs == IF result.tag = "NotCalled" THEN Patterns ELSE {}

Next ==
  \/ \E p \in PatternArgs : Parse(p)
  \/ \E rng \in RandStreams(result) : Generate(rng)

Spec == Init /\ [][Next]_vars

\* single-symbol parsers of the catalog
InitCatalog ==
  /\ inventory = InventoryWithEverything
  /\ src = <<>>
  /\ result = NotCalled
  /\ word = NotCalled
  /\ calls = 0
  /\ family = "None"
  /\ input = <<>>
  /\ parsed = NotCalled
  /\ samplers = <<>>
  /\ cmd = NotCalled
  /\ built = "given"

ParseConsonant(s) ==
  /\ family' = "Consonant"
  /\ input' = s
  /\ parsed' = ConsonantFromStr(s)
  /\ UNCHANGED <<inventory, src, result, word, calls, samplers, cmd, built>>

ParseVowel(s) ==
  /\ family' = "Vowel"
  /\ input' = s
  /\ parsed' = VowelFromStr(s)
  /\ UNCHANGED <<inventory, src, result, word, calls, samplers, cmd, built>>

ParseNonPulmonicConsonant(s) ==
  /\ family' = "NonPulmonicConsonant"
  /\ input' = s
  /\ parsed' = NonPulmonicConsonantFromStr(s)
  /\ UNCHANGED <<inventory, src, result, word, calls, samplers, cmd, built>>

\* Phoneme::try_from(c), Place::try_from(c), Manner::try_from(c)
ParsePhoneme(c) ==
  /\ family' = "Phoneme"
  /\ input' = <<c>>
  /\ parsed' = PhonemeTryFrom(c)
  /\ UNCHANGED <<inventory, src, result, word, calls, samplers, cmd, built>>

ParsePlace(c) ==
  /\ family' = "Place"
  /\ input' = <<c>>
  /\ parsed' = PlaceTryFrom(c)
  /\ UNCHANGED <<inventory, src, result, word, calls, samplers, cmd, built>>

ParseManner(c) ==
  /\ family' = "Manner"
  /\ input' = <<c>>
  /\ parsed' = MannerTryFrom(c)
  /\ UNCHANGED <<inventory, src, result, word, calls, samplers, cmd, built>>

NextCatalog ==
  \/ \E s \in SymbolInputs : ParseConsonant(s)
  \/ \E s \in SymbolInputs : ParseVowel(s)
  \/ \E s \in SymbolInputs : ParseNonPulmonicConsonant(s)
  \/ \E c \in CatalogChars : ParsePhoneme(c)
  \/ \E c \in CatalogChars : ParsePlace(c)
  \/ \E c \in CatalogChars : ParseManner(c)

SpecCatalog == InitCatalog /\ [][NextCatalog]_vars

\* --------------------------------------------- samplers sharing a generator
\* Each sampler calls WordGenerator::generate(&self, rng) on the same
\* generator with a random source of its own; one step is one execution of
\* out.push(ph.generate(rng)) in SyllableGenerator::generate, followed, after
\* the last slot of a syllable generator, by Syllable::new and the push of
\* WordGenerator::generate.
Samplers == {"s1", "s2"}

SamplerPatterns == SeqsUpTo({67, 86, 32}, MaxSamplerLen)
SamplerInventories ==
  {InventoryWithEverything,
   InventoryNew(<<"P", "T">>, <<"A">>, <<>>),
   InventoryNew(<<>>, <<"A">>, <<>>)}

\* a sampler that has entered generate with the random values seed to come
NewSampler(seed) ==
  [seed |-> seed, rng |-> seed, syl |-> 1, cur |-> <<>>, out |-> <<>>,
   status |-> "running"]

InitSamplers ==
  /\ inventory \in SamplerInventories
  /\ src \in SamplerPatterns
  /\ result = WordGeneratorParse(src, inventory)
  /\ result.tag = "Ok"
  /\ word = NotCalled
  /\ calls = 0
  /\ family = "None"
  /\ input = <<>>
  /\ parsed = NotCalled
  /\ samplers \in [Samplers -> {NewSampler(seed) : seed \in RandStreams(result)}]
  /\ cmd = NotCalled
  /\ built = "given"

\* a draw that leaves the random value in the stream, so that the next slot
\* sees it again (mutation of AfterDraw)
AfterDraw_NoAdvance(sm, g, rng) ==
  LET sg == g.syllables[sm.syl]
      r == PhonemeGeneratorGenerate(sg.phonemes[Len(sm.cur) + 1], rng)
  IN
  IF r.tag # "Ok" THEN [sm EXCEPT !.status = "panic"]
  ELSE LET cur == Append(sm.cur, r.val[1]) IN
       IF Len(cur) < Len(sg.phonemes)
       THEN [sm EXCEPT !.cur = cur]
       ELSE [sm EXCEPT !.cur = <<>>,
                       !.out = Append(sm.out, SyllableNew(cur)),
                       !.syl = sm.syl + 1,
                       !.status = IF sm.syl + 1 > Len(g.syllables)
                                  THEN "done" ELSE "running"]

\* the state of a sampler after the draw for its next slot
AfterDraw(sm, g, rng) ==
  LET sg == g.syllables[sm.syl]
      r == PhonemeGeneratorGenerate(sg.phonemes[Len(sm.cur) + 1], rng)
  IN
  IF r.tag # "Ok" THEN [sm EXCEPT !.status = "panic"]
  ELSE LET cur == Append(sm.cur, r.val[1]) IN
       IF Len(cur) < Len(sg.phonemes)
       THEN [sm EXCEPT !.cur = cur, !.rng = r.val[2]]
       ELSE [sm EXCEPT !.cur = <<>>, !.rng = r.val[2],
                       !.out = Append(sm.out, SyllableNew(cur)),
                       !.syl = sm.syl + 1,
                       !.status = IF sm.syl + 1 > Len(g.syllables)
                                  THEN "done" ELSE "running"]

\* a draw that takes its random value from the source of sampler s1 and
\* leaves the sampler's own source alone (mutation of Draw)
Draw_SharedRng(t) ==
  /\ samplers[t].status = "running"
  /\ LET after == AfterDraw(samplers[t], result.val, samplers["s1"].seed) IN
     samplers' = [samplers EXCEPT ![t] = [after EXCEPT !.rng = samplers[t].rng]]
  /\ UNCHANGED <<inventory, src, result, word, calls, family, input, parsed, cmd, built>>

\* one sampler draws the phoneme of its next slot
Draw(t) ==
  /\ samplers[t].status = "running"
  /\ samplers' = [samplers EXCEPT ![t] = AfterDraw(samplers[t], result.val, samplers[t].rng)]
  /\ UNCHANGED <<inventory, src, result, word, calls, family, input, parsed, cmd, built>>

NextSamplers == \E t \in Samplers : Draw(t)

SpecSamplers == InitSamplers /\ [][NextSamplers]_vars

\* ------------------------------------------------- building the inventory
\* The phoneme lists of the command line: each family is absent or a list
\* (the empty list and repeated constants included).
CommandLines ==
  [consonants : {None} \cup {Some(l) : l \in ConsonantLists},
   vowels : {None} \cup {Some(l) : l \in VowelLists},
   non_pulmonic : {None, Some(<<>>), Some(<<"BilabialClick">>),
                   Some(<<"Velar", "DentalClick", "Velar">>)}]

InitInventory ==
  /\ inventory = NotCalled
  /\ src = <<>>
  /\ result = NotCalled
  /\ word = NotCalled
  /\ calls = 0
  /\ family = "None"
  /\ input = <<>>
  /\ parsed = NotCalled
  /\ samplers = <<>>
  /\ cmd \in CommandLines
  /\ built = "none"

\* main.rs: phone::Inventory::new(...) from the lists of the command line
BuildFromCommandLine ==
  /\ built = "none"
  /\ inventory' = MainInventory(cmd)
  /\ built' = "new"
  /\ UNCHANGED <<src, result, word, calls, family, input, parsed, samplers, cmd>>

\* Inventory::with_everything()
BuildWithEverything ==
  /\ built = "none"
  /\ inventory' = InventoryWithEverything
  /\ built' = "with_everything"
  /\ UNCHANGED <<src, result, word, calls, family, input, parsed, samplers, cmd>>

NextInventory == BuildFromCommandLine \/ BuildWithEverything

SpecInventory == InitInventory /\ [][NextInventory]_vars

\* -------------------------------------------------- main.rs: parse_all
\* T::try_from(c) for the three families that the command line parses
TryFromOf(fam, c) ==
  CASE fam = "Consonant" -> ConsonantTryFrom(c)
    [] fam = "Vowel" -> VowelTryFrom(c)
    [] fam = "NonPulmonicConsonant" -> NonPulmonicConsonantTryFrom(c)

\* the texts "unknown character: " and "unknown characters: " and ", "
MsgUnknownCharacter ==
  <<117, 110, 107, 110, 111, 119, 110, 32, 99, 104, 97, 114, 97, 99, 116, 101, 114, 58, 32>>
MsgUnknownCharacters ==
  <<117, 110, 107, 110, 111, 119, 110, 32, 99, 104, 97, 114, 97, 99, 116, 101, 114, 115, 58, 32>>
MsgComma == <<44, 32>>

\* anyhow!(msg)
Anyhow(msg) == [kind |-> "anyhow", msg |-> msg]

\* parse_all: the for loop over src.chars()
RECURSIVE ParseAllLoop(_, _, _, _)
ParseAllLoop(rem, fam, out, unknowns) ==
  IF rem = <<>> THEN <<out, unknowns>>
  ELSE LET r == TryFromOf(fam, Head(rem)) IN
       IF r.tag = "Ok"
       THEN ParseAllLoop(Tail(rem), fam, Append(out, r.val), unknowns)
       ELSE ParseAllLoop(Tail(rem), fam, out, Append(unknowns, Head(rem)))

\* parse_all: write!(msg, ", {c}") for each of unknowns[1..]
RECURSIVE ParseAllWriteRest(_, _)
ParseAllWriteRest(msg, rest) ==
  IF rest = <<>> THEN msg
  ELSE ParseAllWriteRest(msg \o MsgComma \o <<Head(rest)>>, Tail(rest))

\* parse_all that gives up at the first unknown character (mutation of ParseAll)
ParseAll_FirstOnly(s, fam) ==
  LET r == ParseAllLoop(s, fam, <<>>, <<>>)
      out == r[1]
      unknowns == r[2]
  IN
  IF Len(unknowns) = 0 THEN Ok(out)
  ELSE Err(Anyhow(MsgUnknownCharacter \o <<unknowns[1]>>))

\* parse_all::<T>(src)
ParseAll(s, fam) ==
  LET r == ParseAllLoop(s, fam, <<>>, <<>>)
      out == r[1]
      unknowns == r[2]
  IN
  CASE Len(unknowns) = 0 -> Ok(out)
    [] Len(unknowns) = 1 -> Err(Anyhow(MsgUnknownCharacter \o <<unknowns[1]>>))
    [] OTHER -> Err(Anyhow(ParseAllWriteRest(MsgUnknownCharacters \o <<unknowns[1]>>,
                                             Tail(unknowns))))

\* list texts over 'p', 'a', the bilabial click, '#' and '!'
ListTexts == SeqsUpTo({112, 97, 664, 35, 33}, MaxListLen)

InitParseAll ==
  /\ inventory = NotCalled
  /\ src = <<>>
  /\ result = NotCalled
  /\ word = NotCalled
  /\ calls = 0
  /\ family = "None"
  /\ input = <<>>
  /\ parsed = NotCalled
  /\ samplers = <<>>
  /\ cmd = NotCalled
  /\ built = "none"

\* the value parser of --consonants, --vowels or --non-pulmonic runs on s
ParseList(fam, s) ==
  /\ family' = fam
  /\ input' = s
  /\ parsed' = ParseAll(s, fam)
  /\ UNCHANGED <<inventory, src, result, word, calls, samplers, cmd, built>>

NextParseAll ==
  \E fam \in {"Consonant", "Vowel", "NonPulmonicConsonant"} :
    \E s \in ListTexts : ParseList(fam, s)

SpecParseAll == InitParseAll /\ [][NextParseAll]_vars

\* ------------------------------------------------- comparing generators
\* the derived equality, display included (mutation of PhonemeGeneratorEq)
PhonemeGeneratorEq_Derived(a, b) ==
  a.display = b.display /\ a.choices = b.choices /\ a.weights = b.weights

\* impl PartialEq for PhonemeGenerator
PhonemeGeneratorEq(a, b) == a.choices = b.choices /\ a.weights = b.weights

\* #[derive(PartialEq)] for SyllableGenerator: the slot lists, element-wise
SyllableGeneratorEq(a, b) ==
  /\ Len(a.phonemes) = Len(b.phonemes)
  /\ \A j \in 1..Len(a.phonemes) : PhonemeGeneratorEq(a.phonemes[j], b.phonemes[j])

\* #[derive(PartialEq)] for WordGenerator: the syllable lists, element-wise
WordGeneratorEq(a, b) ==
  /\ Len(a.syllables) = Len(b.syllables)
  /\ \A i \in 1..Len(a.syllables) : SyllableGeneratorEq(a.syllables[i], b.syllables[i])

EqPatterns == SeqsUpTo({67, 86, 32}, MaxEqLen)
EqInventories ==
  {InventoryWithEverything,
   InventoryNew(<<"P">>, <<"A">>, <<>>),
   InventoryNew(<<>>, <<>>, <<>>)}

InitEq ==
  /\ inventory \in EqInventories
  /\ src = <<>>
  /\ result = NotCalled
  /\ word = NotCalled
  /\ calls = 0
  /\ family = "None"
  /\ input = <<>>
  /\ parsed = NotCalled
  /\ samplers = <<>>
  /\ cmd = NotCalled
  /\ built = "given"

\* WordGenerator::parse of the first pattern text
ParseLeft(p) ==
  /\ result.tag = "NotCalled"
  /\ src' = p
  /\ result' = WordGeneratorParse(p, inventory)
  /\ UNCHANGED <<inventory, word, calls, family, input, parsed, samplers, cmd, built>>

\* WordGenerator::parse of the second pattern text, kept in input and parsed
ParseRight(q) ==
  /\ result.tag # "NotCalled"
  /\ parsed.tag = "NotCalled"
  /\ family' = "WordGenerator"
  /\ input' = q
  /\ parsed' = WordGeneratorParse(q, inventory)
  /\ UNCHANGED <<inventory, src, result, word, calls, samplers, cmd, built>>

\* left == right on two generators that parse returned; the outcome is
\* kept in word
Compare ==
  /\ result.tag = "Ok"
  /\ parsed.tag = "Ok"
  /\ word.tag = "NotCalled"
  /\ word' = Ok(WordGeneratorEq(result.val, parsed.val))
  /\ UNCHANGED <<inventory, src, result, calls, family, input, parsed, samplers, cmd, built>>

NextEq ==
  \/ \E p \in EqPatterns : ParseLeft(p)
  \/ \E q \in EqPatterns : ParseRight(q)
  \/ Compare

SpecEq == InitEq /\ [][NextEq]_vars

\* ----------------------------------------------------- sampling one slot
\* A generator of one slot ("C" or "V") sampled once, with a random value
\* from zero up to MaxWraps times the number of candidates, or a large one.
SlotRandVals(r) ==
  IF r.tag = "Ok"
  THEN (0..(MaxWraps * Len(r.val.syllables[1].phonemes[1].choices))) \cup RandVals
  ELSE {}

InitSlot ==
  /\ inventory \in SamplerInventories
  /\ src \in {<<67>>, <<86>>}
  /\ result = WordGeneratorParse(src, inventory)
  /\ result.tag = "Ok"
  /\ word = NotCalled
  /\ calls = 0
  /\ family = "None"
  /\ input = <<>>
  /\ parsed = NotCalled
  /\ samplers \in [{"s1"} -> {NewSampler(<<r>>) : r \in SlotRandVals(result)}]
  /\ cmd = NotCalled
  /\ built = "given"

NextSlot == \E t \in DOMAIN samplers : Draw(t)

SpecSlot == InitSlot /\ [][NextSlot]_vars

\* ------------------------------------------------------------- properties
\* every slot of a generator, syllable after syllable
RECURSIVE AllSlots(_)
AllSlots(syllables) ==
  IF syllables = <<>> THEN <<>>
  ELSE Head(syllables).phonemes \o AllSlots(Tail(syllables))

\* the pattern characters that are not separators, in order
SlotChars(s) == SelectSeq(s, LAMBDA c : ~IsAsciiWhitespace(c))

\* Unicode White_Space (char::is_whitespace)
IsWhitespace(c) ==
  \/ c \in {9, 10, 11, 12, 13, 32, 133, 160, 5760, 8232, 8233, 8239, 8287, 12288}
  \/ c \in 8192..8202

\* a character that is no token: not 'C', 'V', '[', '(', not a separator and
\* not a letter (place and manner triggers are letters)
IsLetter(c) == c \in 65..90 \/ c \in 97..122 \/ c >= 128
IsNoToken(c) == c \notin {67, 86, 91, 40} /\ ~IsAsciiWhitespace(c) /\ ~IsLetter(c)

\* C1: whenever WordGenerator::parse returned Ok, every slot of every syllable
\* generator has at least one candidate.
C1_ParsedSlotsNonEmpty ==
  result.tag = "Ok" =>
    \A i \in 1..Len(result.val.syllables) :
      \A j \in 1..Len(result.val.syllables[i].phonemes) :
        Len(result.val.syllables[i].phonemes[j].choices) > 0

\* C2: generate on a generator that parse returned as Ok never faults.
C2_GenerateNeverFaults == word.tag # "Panic"

\* C3: when the first character of the pattern that is not 'C', 'V' or a
\* separator is no token at all, parse returns Err(UnknownCharacter(c)) with
\* exactly that character.
C3_UnknownCharacterReported ==
  \A i \in 1..Len(src) :
    ( /\ result.tag # "NotCalled"
      /\ IsNoToken(src[i])
      /\ \A j \in 1..(i - 1) : src[j] \in {67, 86} \/ IsAsciiWhitespace(src[j]) )
    => result = Err(UnknownCharacter(src[i]))

\* C4: every place (resp. manner) found among the inventory's consonants has a
\* pattern character that compiles to a slot whose candidates are exactly the
\* inventory consonants of that place (resp. manner).
C4_PlaceAndMannerSlots ==
  LET cs == InventoryConsonants(inventory)
      Compiles(c, keep) ==
        LET r == PhonemeGeneratorParse(<<c>>, inventory) IN
        /\ r.tag = "Ok"
        /\ {r.val[1].choices[n] : n \in 1..Len(r.val[1].choices)}
             = {PhonemeFromConsonant(cs[n]) : n \in {m \in 1..Len(cs) : keep[cs[m]]}}
  IN  /\ \A p \in {ConsonantPlace(cs[n]) : n \in 1..Len(cs)} :
           \E c \in 0..127 : Compiles(c, [x \in Consonant |-> ConsonantPlace(x) = p])
      /\ \A m \in {ConsonantManner(cs[n]) : n \in 1..Len(cs)} :
           \E c \in 0..127 : Compiles(c, [x \in Consonant |-> ConsonantManner(x) = m])

\* segments of a pattern text: first positions of the maximal runs of
\* non-separator characters, the n-th of them, and the last position of a run
SegStarts(s) ==
  {i \in 1..Len(s) : ~IsAsciiWhitespace(s[i]) /\ (i = 1 \/ IsAsciiWhitespace(s[i - 1]))}
NthStart(s, n) ==
  CHOOSE i \in SegStarts(s) : Cardinality({k \in SegStarts(s) : k < i}) = n - 1
SegEnd(s, i) ==
  CHOOSE j \in i..Len(s) :
    /\ \A k \in i..j : ~IsAsciiWhitespace(s[k])
    /\ j = Len(s) \/ IsAsciiWhitespace(s[j + 1])
CVOnly(s) ==
  /\ \A i \in 1..Len(s) : s[i] \in {67, 86} \/ IsAsciiWhitespace(s[i])
  /\ \E i \in 1..Len(s) : s[i] \in {67, 86}

\* C5: a pattern of 'C', 'V' and ASCII whitespace with at least one 'C' or 'V'
\* parses against the full catalog to Ok, with one syllable generator per
\* segment and one slot per character of the segment, in order.
C5_OneSlotPerCharacter ==
  (result.tag # "NotCalled" /\ inventory = InventoryWithEverything /\ CVOnly(src)) =>
    /\ result.tag = "Ok"
    /\ Len(result.val.syllables) = Cardinality(SegStarts(src))
    /\ \A n \in 1..Len(result.val.syllables) :
         LET i == NthStart(src, n)
             j == SegEnd(src, i)
             slots == result.val.syllables[n].phonemes
         IN  /\ Len(slots) = j - i + 1
             /\ \A k \in 1..Len(slots) : slots[k].display = <<src[i + k - 1]>>

C5_Witness ==
  /\ result.tag = "Ok"
  /\ inventory = InventoryWithEverything
  /\ CVOnly(src)
  /\ Len(result.val.syllables) = 2
  /\ \E i \in 1..Len(src) : src[i] = 9

\* C6: the slot compiled from a 'C' holds the inventory's consonant list
\* (same elements, order and repetitions), the slot compiled from a 'V' holds
\* the vowel list, and no such slot holds a non-pulmonic consonant.
C6_ClassSlotCandidates ==
  result.tag = "Ok" =>
    LET slots == AllSlots(result.val.syllables)
        chars == SlotChars(src)
        cs == InventoryConsonants(inventory)
        vs == InventoryVowels(inventory)
    IN  /\ Len(slots) = Len(chars)
        /\ \A n \in 1..Len(slots) :
             /\ chars[n] = 67 =>
                  slots[n].choices = [i \in 1..Len(cs) |-> [family |-> "Consonant", k |-> cs[i]]]
             /\ chars[n] = 86 =>
                  slots[n].choices = [i \in 1..Len(vs) |-> [family |-> "Vowel", k |-> vs[i]]]
             /\ chars[n] \in {67, 86} =>
                  \A i \in 1..Len(slots[n].choices) :
                    slots[n].choices[i].family # "NonPulmonicConsonant"

C6_Witness ==
  /\ result.tag = "Ok"
  /\ InventoryConsonants(inventory) = <<"T", "T">>
  /\ InventoryVowels(inventory) = <<"A">>
  /\ InventoryNonPulmonicConsonants(inventory) # <<>>
  /\ SlotChars(src) = <<67, 86>>

\* C7 as stated: a pattern made only of whitespace characters (or empty) makes
\* parse return Err(NoInput).
C7_Original ==
  (result.tag # "NotCalled" /\ \A i \in 1..Len(src) : IsWhitespace(src[i])) =>
    result = Err(NoInput)

\* C7: the empty pattern, and every pattern made only of ASCII whitespace
\* (the separators of split_ascii_whitespace), makes parse return Err(NoInput)
\* for every inventory.
C7_AsciiWhitespaceNoInput ==
  (result.tag # "NotCalled" /\ \A i \in 1..Len(src) : IsAsciiWhitespace(src[i])) =>
    result = Err(NoInput)

C7_Witness ==
  /\ result = Err(NoInput)
  /\ Len(src) >= 2
  /\ \E i \in 1..Len(src) : src[i] = 9
  /\ \E i \in 1..Len(src) : src[i] = 32
  /\ \A i \in 1..Len(src) : IsAsciiWhitespace(src[i])

\* the text with leading and trailing whitespace removed and every inner run
\* of whitespace replaced by one space
RECURSIVE NormaliseWhitespace(_, _, _)
NormaliseWhitespace(s, started, pending) ==
  IF s = <<>> THEN <<>>
  ELSE IF IsWhitespace(Head(s)) THEN NormaliseWhitespace(Tail(s), started, started)
  ELSE (IF pending THEN <<32>> ELSE <<>>) \o <<Head(s)>>
         \o NormaliseWhitespace(Tail(s), TRUE, FALSE)

\* C8: the rendering of a successfully parsed generator is the pattern text
\* with its whitespace normalised.
C8_DisplayRoundTrip ==
  result.tag = "Ok" =>
    WordGeneratorDisplay(result.val) = NormaliseWhitespace(src, FALSE, FALSE)

C8_Witness ==
  /\ result.tag = "Ok"
  /\ Len(result.val.syllables) >= 2
  /\ \E i \in 2..(Len(src) - 2) : IsWhitespace(src[i]) /\ IsWhitespace(src[i + 1])
  /\ WordGeneratorDisplay(result.val) # src

\* C9: a word that generate returned has one syllable per syllable generator
\* and one phoneme per slot, each a member of its slot's candidate list.
C9_WordConformsToGenerator ==
  word.tag = "Ok" =>
    LET w == word.val
        g == result.val
    IN  /\ Len(w) = Len(g.syllables)
        /\ \A i \in 1..Len(w) :
             /\ Len(w[i].inner) = Len(g.syllables[i].phonemes)
             /\ \A j \in 1..Len(w[i].inner) :
                  \E n \in 1..Len(g.syllables[i].phonemes[j].choices) :
                    g.syllables[i].phonemes[j].choices[n] = w[i].inner[j]

C9_Witness ==
  /\ word.tag = "Ok"
  /\ calls >= 2
  /\ Len(word.val) >= 2
  /\ \E i \in 1..Len(word.val) : Len(word.val[i].inner) >= 2
  /\ inventory = InventoryWithEverything

\* C10: parsing the one-character string of a catalog constant's code with
\* its family's parser returns that constant.
C10_CodeRoundTrip ==
  /\ \A k \in Consonant :
       (family = "Consonant" /\ input = <<ConsonantCode(k)>>) => parsed = Ok(k)
  /\ \A k \in Vowel :
       (family = "Vowel" /\ input = <<VowelCode(k)>>) => parsed = Ok(k)
  /\ \A k \in NonPulmonicConsonant :
       (family = "NonPulmonicConsonant" /\ input = <<NonPulmonicConsonantCode(k)>>)
         => parsed = Ok(k)

C10_Witness ==
  /\ family = "Consonant"
  /\ input = <<ConsonantCode("VTap")>>
  /\ parsed = Ok("VTap")

\* the codes of the whole catalog, family after family
AllCodes ==
  [i \in 1..Len(ALL_CONSONANTS) |-> ConsonantCode(ALL_CONSONANTS[i])]
    \o [i \in 1..Len(ALL_VOWELS) |-> VowelCode(ALL_VOWELS[i])]
    \o [i \in 1..Len(ALL_NON_PULMONIC_CONSTANTS) |->
          NonPulmonicConsonantCode(ALL_NON_PULMONIC_CONSTANTS[i])]
CodeSet == {AllCodes[i] : i \in 1..Len(AllCodes)}

\* C11: no two catalog constants, of the same family or of different
\* families, have the same code: the codes of the 59 consonants, 28 vowels
\* and 10 non-pulmonic consonants are 59 + 28 + 10 different characters, and
\* a character that a family's parser accepts is the code of no constant of
\* another family.
C11_CodesUnique ==
  /\ Len(AllCodes) = 59 + 28 + 10
  /\ Cardinality(CodeSet) = Len(AllCodes)
  /\ (family \in {"Consonant", "Vowel", "NonPulmonicConsonant"} /\ parsed.tag = "Ok")
       => Cardinality({i \in 1..Len(AllCodes) : AllCodes[i] = input[1]}) = 1

C11_Witness ==
  /\ family = "NonPulmonicConsonant"
  /\ parsed = Ok("Velar")
  /\ input = <<NonPulmonicConsonantCode("Velar")>>

\* the constants of the three families that have the code c
WithCode(c) ==
  {PhonemeFromConsonant(k) : k \in {x \in Consonant : ConsonantCode(x) = c}}
    \cup {PhonemeFromVowel(k) : k \in {x \in Vowel : VowelCode(x) = c}}
    \cup {PhonemeFromNonPulmonicConsonant(k) :
            k \in {x \in NonPulmonicConsonant : NonPulmonicConsonantCode(x) = c}}

\* C12: a family's from_str answers by the number of characters: none gives
\* NoInput, two or more give TooManyCharacters whatever they are, one gives
\* the constant with that code or UnknownCharacter of it.  Phoneme::try_from
\* succeeds exactly on the codes of the three families, with the constant
\* of that code, and gives UnknownCharacter of the character otherwise.
C12_SymbolParserOutcomes ==
  /\ family \in {"Consonant", "Vowel", "NonPulmonicConsonant"} =>
       /\ Len(input) = 0 => parsed = Err(NoInput)
       /\ Len(input) >= 2 => parsed = Err(TooManyCharacters)
       /\ Len(input) = 1 =>
            LET own == {ph \in WithCode(input[1]) : ph.family = family} IN
            IF own = {} THEN parsed = Err(UnknownCharacter(input[1]))
            ELSE parsed.tag = "Ok" /\ [family |-> family, k |-> parsed.val] \in own
  /\ family = "Phoneme" =>
       IF WithCode(input[1]) = {} THEN parsed = Err(UnknownCharacter(input[1]))
       ELSE parsed.tag = "Ok" /\ parsed.val \in WithCode(input[1])

C12_Witness ==
  /\ family = "Phoneme"
  /\ parsed = Ok(PhonemeFromNonPulmonicConsonant("BilabialClick"))

\* C13: Place::try_from and Manner::try_from return, for every character,
\* a place (a manner) or Err(UnknownCharacter(c)), and never fault.
C13_PlaceMannerTotal ==
  /\ family = "Place" =>
       \/ parsed.tag = "Ok" /\ parsed.val \in Place
       \/ parsed = Err(UnknownCharacter(input[1]))
  /\ family = "Manner" =>
       \/ parsed.tag = "Ok" /\ parsed.val \in Manner
       \/ parsed = Err(UnknownCharacter(input[1]))

\* C14: a pattern whose first slot character is '[' or '(' ends in the fault
\* of an unsupported pattern, and that outcome differs from the outcome of
\* the same pattern with the character '#', which stands for nothing, in
\* place of the bracket.
C14_GroupFaultDistinct ==
  (result.tag # "NotCalled" /\ src # <<>> /\ src[1] \in {91, 40}) =>
    /\ result = Panic
    /\ result # WordGeneratorParse(<<35>> \o Tail(src), inventory)

\* C15: a generator that parse returned has at least one syllable
\* generator, and each of them has at least one slot; a segment that yields
\* no slot makes the parse fail with NoInput.
C15_GeneratorNonEmpty ==
  /\ result.tag = "Ok" =>
       /\ Len(result.val.syllables) >= 1
       /\ \A i \in 1..Len(result.val.syllables) :
            Len(result.val.syllables[i].phonemes) >= 1
  /\ result.tag # "NotCalled" =>
       SyllableGeneratorParse(<<>>, inventory) = Err(NoInput)

C15_Witness ==
  /\ result.tag = "Ok"
  /\ Len(result.val.syllables) = 2
  /\ Len(result.val.syllables[1].phonemes) = 1
  /\ src[1] = 32

\* C16: a generate call leaves the generator, its pattern text and the
\* inventory as they were, and after any number of calls the last result is
\* the word that the unchanged generator gives for some random values,
\* whatever the earlier calls were.
C16_GenerateIsStateless ==
  /\ [][calls' > calls =>
          /\ result' = result
          /\ inventory' = inventory
          /\ src' = src]_vars
  /\ [](calls >= 1 =>
          \E rng \in RandStreams(result) : word = WordGeneratorGenerate(result.val, rng))

C16_Witness ==
  /\ calls = MaxCalls
  /\ result.tag = "Ok"
  /\ word.tag = "Ok"
  /\ Len(result.val.syllables) >= 2

\* C17: with several samplers drawing slot by slot from one shared
\* generator in any order, each with random values of its own, a sampler
\* that has finished holds the word that generate gives for its random
\* values when run alone (and faults exactly when that run faults), and the
\* shared generator is still the one that parse returned.
C17_SamplersDoNotInterfere ==
  /\ \A t \in DOMAIN samplers :
       /\ samplers[t].status = "done" =>
            WordGeneratorGenerate(result.val, samplers[t].seed) = Ok(samplers[t].out)
       /\ samplers[t].status = "panic" =>
            WordGeneratorGenerate(result.val, samplers[t].seed) = Panic
  /\ samplers # <<>> => result = WordGeneratorParse(src, inventory)

C17_Witness ==
  /\ samplers # <<>>
  /\ samplers["s1"].status = "done"
  /\ samplers["s2"].status = "running"
  /\ samplers["s2"].out # <<>>
  /\ samplers["s1"].seed # samplers["s2"].seed
  /\ Len(samplers["s1"].out) >= 2
  /\ inventory = InventoryWithEverything

\* the phonemes a sampler has drawn so far, in slot order
RECURSIVE Flatten(_)
Flatten(syllables) ==
  IF syllables = <<>> THEN <<>> ELSE Head(syllables).inner \o Flatten(Tail(syllables))
Drawn(sm) == Flatten(sm.out) \o sm.cur

\* weight entries that a slot could hold
WeightLists == {<<>>, <<1>>, <<0, 9>>}

\* C19: a slot with n >= 1 candidates and the random value r yields the
\* candidate at index r mod n, an index from 0 to n - 1; every index i below
\* n is the one chosen for the random values i and i + n; the weight entries
\* of the slot have no part in the choice.
C19_SlotSamplesByModulo ==
  \A t \in DOMAIN samplers :
    LET slots == AllSlots(result.val.syllables)
        drawn == Drawn(samplers[t])
    IN
    /\ \A m \in 1..Len(drawn) :
         LET n == Len(slots[m].choices)
             r == samplers[t].seed[m]
         IN
         /\ n >= 1
         /\ (r % n) \in 0..(n - 1)
         /\ drawn[m] = slots[m].choices[(r % n) + 1]
         /\ \A w \in WeightLists :
              PhonemeGeneratorGenerate([slots[m] EXCEPT !.weights = w], <<r>>)
                = Ok(<<drawn[m], <<>>>>)
    /\ \A m \in 1..Len(slots) :
         \A i \in 0..(Len(slots[m].choices) - 1) :
           \A r \in {i, i + Len(slots[m].choices)} :
             PhonemeGeneratorGenerate(slots[m], <<r>>) = Ok(<<slots[m].choices[i + 1], <<>>>>)

C19_Witness ==
  /\ samplers # <<>>
  /\ samplers["s1"].status = "done"
  /\ inventory = InventoryWithEverything
  /\ src = <<67>>
  /\ samplers["s1"].seed = <<2 * Len(ALL_CONSONANTS) - 1>>
  /\ Drawn(samplers["s1"]) = <<PhonemeFromConsonant(ALL_CONSONANTS[Len(ALL_CONSONANTS)])>>

\* the elements of a list
Range(seq) == {seq[i] : i \in 1..Len(seq)}

\* the accessors of the inventory built by with_everything return the whole
\* catalog of each family
EverythingIsEverything ==
  built = "with_everything" =>
    /\ InventoryConsonants(inventory) = ALL_CONSONANTS
    /\ InventoryVowels(inventory) = ALL_VOWELS
    /\ InventoryNonPulmonicConsonants(inventory) = ALL_NON_PULMONIC_CONSTANTS
    /\ Range(InventoryConsonants(inventory)) = Consonant
    /\ Range(InventoryVowels(inventory)) = Vowel
    /\ Range(InventoryNonPulmonicConsonants(inventory)) = NonPulmonicConsonant

\* C20 as stated: in the inventory built from the command line every family
\* that is not given is the whole catalog of that family, and a family that
\* is given is the given list, unchanged; with_everything holds the whole
\* catalog of the three families.
C20_Original ==
  /\ built = "new" =>
       /\ InventoryConsonants(inventory) =
            (IF cmd.consonants = None THEN ALL_CONSONANTS ELSE cmd.consonants.val)
       /\ InventoryVowels(inventory) =
            (IF cmd.vowels = None THEN ALL_VOWELS ELSE cmd.vowels.val)
       /\ InventoryNonPulmonicConsonants(inventory) =
            (IF cmd.non_pulmonic = None THEN ALL_NON_PULMONIC_CONSTANTS
             ELSE cmd.non_pulmonic.val)
  /\ EverythingIsEverything

\* C20, amended: consonants and vowels that are not given are the whole
\* catalog of their family, non-pulmonic consonants that are not given are
\* the empty list; a family that is given is the given list, unchanged;
\* with_everything holds the whole catalog of the three families.
C20_InventoryFallback ==
  /\ built = "new" =>
       /\ InventoryConsonants(inventory) =
            (IF cmd.consonants = None THEN ALL_CONSONANTS ELSE cmd.consonants.val)
       /\ InventoryVowels(inventory) =
            (IF cmd.vowels = None THEN ALL_VOWELS ELSE cmd.vowels.val)
       /\ InventoryNonPulmonicConsonants(inventory) =
            (IF cmd.non_pulmonic = None THEN <<>> ELSE cmd.non_pulmonic.val)
  /\ EverythingIsEverything

C20_Witness ==
  /\ built = "new"
  /\ cmd.consonants = None
  /\ cmd.vowels = Some(<<"A", "A">>)
  /\ cmd.non_pulmonic = None
  /\ InventoryNonPulmonicConsonants(inventory) = <<>>
  /\ InventoryConsonants(inventory) = ALL_CONSONANTS

\* the characters of a list text that are no code of the family, in order
UnknownsOf(s, fam) ==
  SelectSeq(s, LAMBDA c : \A ph \in WithCode(c) : ph.family # fam)

\* the text of an error message after its first ": "
RECURSIVE AfterColon(_)
AfterColon(msg) ==
  IF Len(msg) < 2 THEN <<>>
  ELSE IF msg[1] = 58 /\ msg[2] = 32 THEN Tail(Tail(msg))
  ELSE AfterColon(Tail(msg))

\* C21: parse_all of a list text without unknown characters returns the
\* constants of its characters in input order; otherwise it returns one error
\* and no list, and the error message lists, after its ": ", every unknown
\* character of the input in input order, separated by ", ".
C21_ParseAllCollectsUnknowns ==
  family \in {"Consonant", "Vowel", "NonPulmonicConsonant"} /\ built = "none" =>
    LET unknowns == UnknownsOf(input, family) IN
    IF unknowns = <<>>
    THEN /\ parsed.tag = "Ok"
         /\ Len(parsed.val) = Len(input)
         /\ \A i \in 1..Len(input) :
              [family |-> family, k |-> parsed.val[i]] \in WithCode(input[i])
    ELSE /\ parsed.tag = "Err"
         /\ DOMAIN parsed = {"tag", "err"}
         /\ LET listed == AfterColon(parsed.err.msg) IN
            /\ Len(listed) = 3 * Len(unknowns) - 2
            /\ \A i \in 1..Len(unknowns) : listed[3 * i - 2] = unknowns[i]
            /\ \A i \in 1..(Len(unknowns) - 1) :
                 listed[3 * i - 1] = 44 /\ listed[3 * i] = 32

C21_Witness ==
  /\ family = "Consonant"
  /\ built = "none"
  /\ input = <<35, 112, 33>>
  /\ parsed.tag = "Err"
  /\ AfterColon(parsed.err.msg) = <<35, 44, 32, 33>>

\* C22: a sampler that has drawn m phonemes has taken the first m of its
\* random values, one per slot, the m-th value for the m-th slot counted
\* syllable after syllable and left to right within a syllable; a finished
\* word of a generator with k slots has taken k values; two samplers of the
\* same generator with the same random values end with the same word.
C22_OneValuePerSlotInOrder ==
  samplers # <<>> =>
    LET slots == AllSlots(result.val.syllables) IN
    /\ \A t \in DOMAIN samplers :
         LET sm == samplers[t]
             drawn == Drawn(sm)
         IN
         /\ sm.status # "panic" =>
              sm.rng = SubSeq(sm.seed, Len(drawn) + 1, Len(sm.seed))
         /\ \A m \in 1..Len(drawn) :
              PhonemeGeneratorGenerate(slots[m], <<sm.seed[m]>>) = Ok(<<drawn[m], <<>>>>)
         /\ sm.status = "done" =>
              /\ Len(drawn) = Len(slots)
              /\ Len(sm.seed) - Len(sm.rng) = SlotCount(result.val.syllables)
              /\ WordGeneratorGenerateLoop(result.val.syllables, sm.seed, <<>>)
                   = Ok(<<sm.out, sm.rng>>)
    /\ \A t, u \in DOMAIN samplers :
         (/\ samplers[t].status = "done"
          /\ samplers[u].status = "done"
          /\ samplers[t].seed = samplers[u].seed) => samplers[t].out = samplers[u].out

C22_Witness ==
  /\ samplers # <<>>
  /\ samplers["s1"].status = "done"
  /\ samplers["s1"].seed = <<BigRand, 0, BigRand>>
  /\ samplers["s2"].status = "running"
  /\ Len(Drawn(samplers["s2"])) = 2
  /\ Len(samplers["s2"].rng) = 1
  /\ src = <<67, 86, 67>>
  /\ inventory = InventoryWithEverything

\* the candidate list and the weight list of every slot, syllable by syllable
SlotLists(g) ==
  [i \in 1..Len(g.syllables) |->
    [j \in 1..Len(g.syllables[i].phonemes) |->
      <<g.syllables[i].phonemes[j].choices, g.syllables[i].phonemes[j].weights>>]]

\* C23: two generators that parse returned compare equal exactly when they
\* have the same syllables of the same slots with the same candidate lists,
\* in order, and the same weight lists; the glyphs of the slots, and so the
\* texts the generators render to, have no part in it.
C23_EqualityIgnoresDisplay ==
  (family = "WordGenerator" /\ word.tag = "Ok") =>
    word.val = (SlotLists(result.val) = SlotLists(parsed.val))

C23_Witness ==
  /\ family = "WordGenerator"
  /\ word = Ok(TRUE)
  /\ src # input
  /\ WordGeneratorDisplay(result.val) # WordGeneratorDisplay(parsed.val)

====
